---- MODULE Spec2Model ----
(***************************************************************************)
(* State-machine model of the IR2Vec / MIR2Vec scripting bindings:         *)
(*   PyIR2VecTool  (portable IR sessions,  ir2vec_bindings.cpp)            *)
(*   PyMIR2VecTool (lowered  IR sessions,  mir2vec_bindings.cpp)           *)
(* and of the core tool interface they call (IR2VecTool.h).  The bodies    *)
(* of the core tool (vocabulary loading, the triplet walk, the embedding   *)
(* fold) are not part of the sources at hand; they are modelled from the   *)
(* written specification and are marked as such where they are defined.    *)
(***************************************************************************)
EXTENDS Integers, Sequences, FiniteSets, TLC

VARIABLES
    irVocabPath,   \* process-wide IR2Vec vocabulary path  (setIR2VecVocabPath)
    mirVocabPath,  \* process-wide MIR2Vec vocabulary path (setMIR2VecVocabPath)
    sess,          \* the session objects, by slot
    ctor,          \* a PyIR2VecTool constructor in flight, by slot (statement level)
    last           \* the most recent call: its inputs, its error or its result

vars == <<irVocabPath, mirVocabPath, sess, ctor, last>>

-----------------------------------------------------------------------------
(* Bounds of the model *)

MaxSessions == 2   \* session objects alive in the process
MaxInit == 2       \* vocabulary initialization calls counted per session
MaxInsts == 3      \* instructions in a drawn module
MaxBlocks == 2     \* blocks in a drawn module
MaxFuncs == 2      \* functions in a drawn module
MaxArgs == 1       \* operands of a drawn instruction

Sessions == 1..MaxSessions

-----------------------------------------------------------------------------
(* Relation kinds: enum RelationType *)

TypeRelation == 0
NextRelation == 1
ArgRelation == 2

-----------------------------------------------------------------------------
(* The inputs a caller can pass *)

Modes == {"sym", "fa", "xyz"}
VocabFiles == {"v1.json", "v2.json"}              \* readable vocabulary files
VocabPaths == VocabFiles \cup {"", "nofile.json"} \* plus empty and unreadable
ModuleFiles == {"one.ll", "garbage.ll", "missing.ll"}
LookupNames == {"f", "g", "h", "nope"}
EmbVocabArgs == {"", "v1.json", "nofile.json"}  \* vocab_path of an embedding call
FuncNames == <<"f", "g", "h", "k">>

-----------------------------------------------------------------------------
(* Program representation: a module is a sequence of functions, a function *)
(* a name, a sequence of blocks (none: a declaration) and whether a        *)
(* lowered form exists; a block is a sequence of instructions; an          *)
(* instruction is an opcode and a number of operands.                      *)

Opcodes == {"add", "ret"}
Instr(op, nargs) == [op |-> op, nargs |-> nargs]
Func(name, blocks, hasMF) == [name |-> name, blocks |-> blocks, hasMF |-> hasMF]

\* one.ll: f is one block, add %1, %2 ; ret %1, and has a lowered form;
\* g is a declaration; h has two blocks, no operands and no lowered form.
ModuleOne ==
    << Func("f", << << Instr("add", 2), Instr("ret", 1) >> >>, TRUE),
       Func("g", << >>, FALSE),
       Func("h", << << Instr("add", 0) >>, << Instr("ret", 0) >> >>, FALSE) >>

\* std::ifstream F(Filename); return !F.good();
fileNotValid(Filename) == Filename \notin {"one.ll", "garbage.ll"}

\* parseIRFile / setupMIRContext: the module of a file, or a failure
Parses(Filename) == Filename = "one.ll"
ParsedModule(Filename) == ModuleOne

isDeclaration(F) == Len(F.blocks) = 0

-----------------------------------------------------------------------------
(* Errors: the message of the std::runtime_error thrown and the identifier *)
(* appended to it, if any.                                                 *)

Err(msg, id) == [msg |-> msg, id |-> id]
OK == Err("ok", "")

\* The error taxonomy of the written specification, by message.
ErrorKind(e) ==
    CASE e.msg = "ok" -> "none"
      [] e.msg = "Vocabulary not initialized" -> "NotInitialized"
      [] e.msg = "Function Not Implemented" -> "UnsupportedCapability"
      [] e.msg = "Invalid file path" -> "InputError"
      [] e.msg = "Failed to parse IR file." -> "InputError"
      [] e.msg = "Failed to setup MIR context: " -> "InputError"
      [] e.msg = "Function not found or is a declaration: " -> "InputError"
      [] e.msg = "No MachineFunction found for: " -> "InputError"
      [] e.msg = "Invalid mode. Only 'sym' mode supported." -> "UnsupportedMode"
      [] e.msg = "Invalid mode. Use 'sym' or 'fa'" -> "UnsupportedMode"
      [] e.msg = "Error - Empty Vocab Path not allowed" -> "ConfigurationError"
      [] e.msg = "Failed to initialize IR2Vec vocabulary" -> "ConfigurationError"
      [] e.msg = "Failed to initialize MIR2Vec vocabulary" -> "ConfigurationError"
      [] OTHER -> "unknown"

-----------------------------------------------------------------------------
(* Entity catalog: entity id = position in the ordering, from 0 *)

Entities == <<"add", "ret", "FloatTy", "IntegerTy", "Variable">>
idOf(name) == (CHOOSE i \in DOMAIN Entities : Entities[i] = name) - 1
nameOf(id) == Entities[id + 1]

\* Vocabulary::getCanonicalSize: the number of entities of the catalog
canonicalSize == Len(Entities)

\* the result type entity of an instruction, if it has one
HasResultType(I) == I.op = "add"
ResultType(I) == "IntegerTy"

-----------------------------------------------------------------------------
(* The core tool.  Its bodies are modelled from the written specification. *)

\* setIR2VecVocabPath / setMIR2VecVocabPath: the new value of the global
setIR2VecVocabPath(Path) == Path
setMIR2VecVocabPath(Path) == Path

\* IR2VecTool::initializeVocabulary: loads the vocabulary from the
\* process-wide path; Ok iff a vocabulary file can be read there.
IR2VecTool_initializeVocabulary(globalPath) == globalPath \in VocabFiles

\* MIR2VecTool::initializeVocabulary(M): the same for the lowered variant
MIR2VecTool_initializeVocabulary(globalPath) == globalPath \in VocabFiles

\* MIR2VecTool::initializeVocabularyForLayout(M): resolves entity ids only;
\* reads no vocabulary file.
MIR2VecTool_initializeVocabularyForLayout(M) == TRUE

\* functionsOf(module): declarations excluded; for the lowered variant the
\* functions without a lowered form as well.
functionsOf(M, kind) ==
    SelectSeq(M, LAMBDA F : ~isDeclaration(F) /\ (kind = "lowered" => F.hasMF))

Triplet(h, t, r) == [Head |-> h, Tail |-> t, Relation |-> r]

\* The triples of instruction i of a block: TypeOf, then Next, then ArgOf.
InstTriplets(blk, i) ==
    LET I == blk[i]
        O == idOf(I.op)
    IN  (IF HasResultType(I)
           THEN << Triplet(O, idOf(ResultType(I)), TypeRelation) >> ELSE << >>)
        \o (IF i < Len(blk)
              THEN << Triplet(O, idOf(blk[i + 1].op), NextRelation) >> ELSE << >>)
        \o [k \in 1..I.nargs |-> Triplet(idOf("Variable"), O, ArgRelation)]

RECURSIVE BlockTripletsFrom(_, _)
BlockTripletsFrom(blk, i) ==
    IF i > Len(blk) THEN << >>
    ELSE InstTriplets(blk, i) \o BlockTripletsFrom(blk, i + 1)

RECURSIVE BlocksTriplets(_)
BlocksTriplets(blocks) ==
    IF blocks = << >> THEN << >>
    ELSE BlockTripletsFrom(Head(blocks), 1) \o BlocksTriplets(Tail(blocks))

RECURSIVE FuncsTriplets(_)
FuncsTriplets(funcs) ==
    IF funcs = << >> THEN << >>
    ELSE BlocksTriplets(Head(funcs).blocks) \o FuncsTriplets(Tail(funcs))

\* IR2VecTool::getTriplets / MIR2VecTool::getTriplets(M): a TripletResult.
\* MaxRelation is the upper bound of the relation kinds, not the maximum seen.
getTriplets(M, kind) ==
    [MaxRelation |-> ArgRelation, Triplets |-> FuncsTriplets(functionsOf(M, kind))]

\* IR2VecTool::getEntityMappings / MIR2VecTool::getEntityMappings
getEntityMappings == Entities

\* The keys of the embeddings of each level, in walk order; every embedding
\* is tagged with the vocabulary file its vectors come from.
RECURSIVE FuncKeys(_)
FuncKeys(funcs) ==
    IF funcs = << >> THEN << >>
    ELSE << Head(funcs).name >> \o FuncKeys(Tail(funcs))

RECURSIVE BlockKeys(_)
BlockKeys(funcs) ==
    IF funcs = << >> THEN << >>
    ELSE [b \in 1..Len(Head(funcs).blocks) |-> Head(funcs).name]
         \o BlockKeys(Tail(funcs))

RECURSIVE InstKeysOfBlocks(_)
InstKeysOfBlocks(blocks) ==
    IF blocks = << >> THEN << >>
    ELSE [i \in 1..Len(Head(blocks)) |-> Head(blocks)[i].op]
         \o InstKeysOfBlocks(Tail(blocks))

RECURSIVE InstKeys(_)
InstKeys(funcs) ==
    IF funcs = << >> THEN << >>
    ELSE InstKeysOfBlocks(Head(funcs).blocks) \o InstKeys(Tail(funcs))

EmbeddingKeys(level, funcs) ==
    CASE level = "function" -> FuncKeys(funcs)
      [] level = "block" -> BlockKeys(funcs)
      [] OTHER -> InstKeys(funcs)

\* getFunctionEmbeddings / getBBEmbeddings / getInstEmbeddings
getEmbeddings(level, funcs, vocabSrc) ==
    LET keys == EmbeddingKeys(level, funcs)
    IN  [i \in 1..Len(keys) |-> <<keys[i], vocabSrc>>]

-----------------------------------------------------------------------------
(* Sessions and calls *)

NoSession ==
    [live |-> FALSE, kind |-> "none", Mode |-> "", M |-> << >>, supplied |-> "",
     vocab |-> "none", vocabSrc |-> "", initCalls |-> 0, VocabInitialized |-> FALSE]

\* a PyIR2VecTool after its constructor: the vocabulary is fully loaded
IRSession(Mode, M, VocabOverride, src) ==
    [live |-> TRUE, kind |-> "portable", Mode |-> Mode, M |-> M,
     supplied |-> VocabOverride, vocab |-> "full", vocabSrc |-> src,
     initCalls |-> 1, VocabInitialized |-> FALSE]

\* a PyMIR2VecTool after its constructor: Tool has no vocabulary yet
MIRSession(Mode, M) ==
    [live |-> TRUE, kind |-> "lowered", Mode |-> Mode, M |-> M,
     supplied |-> "", vocab |-> "none", vocabSrc |-> "",
     initCalls |-> 0, VocabInitialized |-> FALSE]

\* clobber: the path another constructor set between this constructor's
\* setIR2VecVocabPath and its initializeVocabulary ("": none did)
IdleCtor ==
    [pc |-> "idle", Filename |-> "", Mode |-> "", VocabOverride |-> "", clobber |-> ""]

NoResult == [kind |-> "none", max_relation |-> 0, list |-> << >>]

\* inits: the vocabulary initialization calls the call made
Call(op, s, kind, Filename, Mode, vocab_path, FunctionName, inits, err, result) ==
    [op |-> op, s |-> s, kind |-> kind, Filename |-> Filename, Mode |-> Mode,
     vocab_path |-> vocab_path, FunctionName |-> FunctionName, inits |-> inits,
     err |-> err, result |-> result]

\* IR2VecTool::isVocabularyValid: Vocab && Vocab->isValid()
isVocabularyValid(s) == sess[s].vocab # "none"

FreeSlot(s) ==
    /\ ~sess[s].live
    /\ ctor[s].pc = "idle"
    /\ \A t \in Sessions : t < s => (sess[t].live \/ ctor[t].pc # "idle")

EmbOps == {"getFuncVectorMap", "generateBBEmbeddings", "generateInstEmbeddings",
           "generateMBBEmbeddings", "generateMInstEmbeddings"}
StructOps == {"getEntityMappings", "generateTriplets"}

Init ==
    /\ irVocabPath = ""
    /\ mirVocabPath = ""
    /\ sess = [s \in Sessions |-> NoSession]
    /\ ctor = [s \in Sessions |-> IdleCtor]
    /\ last = Call("none", 0, "none", "", "", "", "", 0, OK, NoResult)

-----------------------------------------------------------------------------
(* PyIR2VecTool: sessions on the portable representation *)

\* the constructor's checks without the test for an empty VocabOverride
PyIR2VecTool_checks_noEmptyTest(Filename, Mode, VocabOverride) ==
    IF fileNotValid(Filename) THEN Err("Invalid file path", "")
    ELSE IF Mode # "sym" /\ Mode # "fa" THEN Err("Invalid mode. Use 'sym' or 'fa'", "")
    ELSE IF ~Parses(Filename) THEN Err("Failed to parse IR file.", "")
    ELSE OK

\* the constructor up to its last check
PyIR2VecTool_checks(Filename, Mode, VocabOverride) ==
    IF fileNotValid(Filename) THEN Err("Invalid file path", "")
    ELSE IF Mode # "sym" /\ Mode # "fa" THEN Err("Invalid mode. Use 'sym' or 'fa'", "")
    ELSE IF ~Parses(Filename) THEN Err("Failed to parse IR file.", "")
    ELSE IF VocabOverride = "" THEN Err("Error - Empty Vocab Path not allowed", "")
    ELSE OK

\* the path is written only while the global is still unset
PyIR2VecTool_setPath_onlyOnce(cur, VocabOverride) ==
    IF cur = "" THEN setIR2VecVocabPath(VocabOverride) ELSE cur

\* setIR2VecVocabPath(VocabOverride): the global after the statement
PyIR2VecTool_setPath(cur, VocabOverride) == setIR2VecVocabPath(VocabOverride)

\* counts a vocabulary initialization call, up to MaxInit
CountInit(n) == IF n < MaxInit THEN n + 1 ELSE n

\* the constructor without the throw on !Ok
PyIR2VecTool_ctor_ignoreOk(s, Filename, Mode, VocabOverride) ==
    LET e == PyIR2VecTool_checks(Filename, Mode, VocabOverride)
        path == IF e = OK THEN PyIR2VecTool_setPath(irVocabPath, VocabOverride)
                ELSE irVocabPath
        Ok == IR2VecTool_initializeVocabulary(path)
    IN  /\ FreeSlot(s)
        /\ irVocabPath' = path
        /\ sess' = IF e = OK
                     THEN [sess EXCEPT ![s] =
                              [IRSession(Mode, ParsedModule(Filename), VocabOverride, path)
                                 EXCEPT !.vocab = IF Ok THEN "full" ELSE "none"]]
                     ELSE sess
        /\ last' = Call("PyIR2VecTool", s, "portable", Filename, Mode, VocabOverride, "",
                        IF e = OK THEN 1 ELSE 0, e, NoResult)
        /\ UNCHANGED <<mirVocabPath, ctor>>

\* PyIR2VecTool(Filename, Mode, VocabOverride), as one call
PyIR2VecTool_ctor(s, Filename, Mode, VocabOverride) ==
    LET e == PyIR2VecTool_checks(Filename, Mode, VocabOverride)
        path == IF e = OK THEN PyIR2VecTool_setPath(irVocabPath, VocabOverride)
                ELSE irVocabPath
        Ok == IR2VecTool_initializeVocabulary(path)
        err == IF e # OK THEN e
               ELSE IF ~Ok THEN Err("Failed to initialize IR2Vec vocabulary", "")
               ELSE OK
    IN  /\ FreeSlot(s)
        /\ irVocabPath' = path
        /\ sess' = IF err = OK
                     THEN [sess EXCEPT ![s] =
                              IRSession(Mode, ParsedModule(Filename), VocabOverride, path)]
                     ELSE sess
        /\ last' = Call("PyIR2VecTool", s, "portable", Filename, Mode, VocabOverride, "",
                        IF e = OK THEN 1 ELSE 0, err, NoResult)
        /\ UNCHANGED <<mirVocabPath, ctor>>

\* getFuncVectorMap / generateBBEmbeddings / generateInstEmbeddings
PyIR2VecTool_embed(s, op, level) ==
    LET S == sess[s]
        err == IF S.vocab = "full" THEN OK ELSE Err("Vocabulary not initialized", "")
    IN  /\ S.live /\ S.kind = "portable"
        /\ last' = Call(op, s, "portable", "", "", "", "", 0, err,
                        IF err = OK
                          THEN [kind |-> "embeddings", max_relation |-> 0,
                                list |-> getEmbeddings(level, functionsOf(S.M, "portable"),
                                                       S.vocabSrc)]
                          ELSE NoResult)
        /\ UNCHANGED <<irVocabPath, mirVocabPath, sess, ctor>>

PyIR2VecTool_getFuncVectorMap(s) == PyIR2VecTool_embed(s, "getFuncVectorMap", "function")
PyIR2VecTool_generateBBEmbeddings(s) == PyIR2VecTool_embed(s, "generateBBEmbeddings", "block")
PyIR2VecTool_generateInstEmbeddings(s) ==
    PyIR2VecTool_embed(s, "generateInstEmbeddings", "instruction")

\* the tuple built as (head, relation, tail)
TripletDict_relationSecond(result) ==
    [kind |-> "triplets", max_relation |-> result.MaxRelation,
     list |-> [i \in 1..Len(result.Triplets) |->
                 << result.Triplets[i].Head, result.Triplets[i].Relation,
                    result.Triplets[i].Tail >>]]

\* the tuple built as (tail, head, relation)
TripletDict_tailFirst(result) ==
    [kind |-> "triplets", max_relation |-> result.MaxRelation,
     list |-> [i \in 1..Len(result.Triplets) |->
                 << result.Triplets[i].Tail, result.Triplets[i].Head,
                    result.Triplets[i].Relation >>]]

\* the dict a binding returns for a TripletResult
TripletDict(result) ==
    [kind |-> "triplets", max_relation |-> result.MaxRelation,
     list |-> [i \in 1..Len(result.Triplets) |->
                 << result.Triplets[i].Head, result.Triplets[i].Tail,
                    result.Triplets[i].Relation >>]]

PyIR2VecTool_generateTriplets(s) ==
    LET S == sess[s]
    IN  /\ S.live /\ S.kind = "portable"
        /\ last' = Call("generateTriplets", s, "portable", "", "", "", "", 0, OK,
                        TripletDict(getTriplets(S.M, "portable")))
        /\ UNCHANGED <<irVocabPath, mirVocabPath, sess, ctor>>

\* the module-level getEntityMappings of py_ir2vec: needs no session
py_ir2vec_getEntityMappings ==
    /\ last' = Call("getEntityMappings", 0, "portable", "", "", "", "", 0, OK,
                    [kind |-> "entities", max_relation |-> 0, list |-> getEntityMappings])
    /\ UNCHANGED <<irVocabPath, mirVocabPath, sess, ctor>>

-----------------------------------------------------------------------------
(* PyMIR2VecTool: sessions on the lowered representation *)

\* the checks with the mode test as in the comment: Mode != "sym" && Mode != "fa"
PyMIR2VecTool_checks_faAllowed(Filename, Mode) ==
    IF fileNotValid(Filename) THEN Err("Invalid file path", "")
    ELSE IF Mode # "sym" /\ Mode # "fa"
      THEN Err("Invalid mode. Only 'sym' mode supported.", "")
    ELSE IF ~Parses(Filename) THEN Err("Failed to setup MIR context: ", "")
    ELSE OK

\* PyMIR2VecTool(Filename, Mode): the error thrown, or OK
PyMIR2VecTool_checks(Filename, Mode) ==
    IF fileNotValid(Filename) THEN Err("Invalid file path", "")
    ELSE IF Mode # "sym" THEN Err("Invalid mode. Only 'sym' mode supported.", "")
    ELSE IF ~Parses(Filename) THEN Err("Failed to setup MIR context: ", "")
    ELSE OK

PyMIR2VecTool_ctor(s, Filename, Mode) ==
    LET err == PyMIR2VecTool_checks(Filename, Mode)
    IN  /\ FreeSlot(s)
        /\ sess' = IF err = OK
                     THEN [sess EXCEPT ![s] = MIRSession(Mode, ParsedModule(Filename))]
                     ELSE sess
        /\ last' = Call("PyMIR2VecTool", s, "lowered", Filename, Mode, "", "", 0, err,
                        NoResult)
        /\ UNCHANGED <<irVocabPath, mirVocabPath, ctor>>

\* the session after Tool->initializeVocabularyForLayout(*Ctx.M)
AfterLayoutInit(S, Ok) ==
    IF Ok THEN [S EXCEPT !.vocab = "layout", !.vocabSrc = "",
                         !.initCalls = CountInit(S.initCalls)]
    ELSE [S EXCEPT !.initCalls = CountInit(S.initCalls)]

\* the copy with each name put in front of the list instead of appended
py_entities_prepend(entities) ==
    [i \in 1..Len(entities) |-> entities[Len(entities) + 1 - i]]

\* for (entity : entities) py_entities.append(py::str(entity))
py_entities(entities) == [i \in 1..Len(entities) |-> entities[i]]

PyMIR2VecTool_getEntityMappings(s) ==
    LET S == sess[s]
        Ok == MIR2VecTool_initializeVocabularyForLayout(S.M)
    IN  /\ S.live /\ S.kind = "lowered"
        /\ sess' = [sess EXCEPT ![s] = AfterLayoutInit(S, Ok)]
        /\ last' = IF ~Ok
                     THEN Call("getEntityMappings", s, "lowered", "", "", "", "", 1,
                               Err("Failed to initialize MIR2Vec vocabulary", ""), NoResult)
                     ELSE Call("getEntityMappings", s, "lowered", "", "", "", "", 1, OK,
                               [kind |-> "entities", max_relation |-> 0,
                                list |-> py_entities(getEntityMappings)])
        /\ UNCHANGED <<irVocabPath, mirVocabPath, ctor>>

PyMIR2VecTool_generateTriplets(s) ==
    LET S == sess[s]
        Ok == MIR2VecTool_initializeVocabularyForLayout(S.M)
    IN  /\ S.live /\ S.kind = "lowered"
        /\ sess' = [sess EXCEPT ![s] = AfterLayoutInit(S, Ok)]
        /\ last' = IF ~Ok
                     THEN Call("generateTriplets", s, "lowered", "", "", "", "", 1,
                               Err("Failed to initialize MIR2Vec vocabulary", ""), NoResult)
                     ELSE Call("generateTriplets", s, "lowered", "", "", "", "", 1, OK,
                               TripletDict(getTriplets(S.M, "lowered")))
        /\ UNCHANGED <<irVocabPath, mirVocabPath, ctor>>

\* getMachineFunction(FunctionName): the error thrown, or OK
getMachineFunction(M, FunctionName) ==
    LET found == {i \in DOMAIN M : M[i].name = FunctionName}
    IN  IF found = {} \/ (\A i \in found : isDeclaration(M[i]))
          THEN Err("Function not found or is a declaration: ", FunctionName)
        ELSE IF \A i \in found : ~M[i].hasMF
          THEN Err("No MachineFunction found for: ", FunctionName)
        ELSE OK

\* The statements after the throw of generateEmbeddings and getFuncVectorMap:
\* initializeMIR2VecVocabularyForEmb(vocab_path), then for a function name the
\* lookup, then the embeddings.  No call reaches them.
PyMIR2VecTool_embedBody(s, op, level, FunctionName, vocab_path) ==
    LET S == sess[s]
        path == setMIR2VecVocabPath(vocab_path)
        Ok == MIR2VecTool_initializeVocabulary(path)
        T == IF Ok THEN [S EXCEPT !.vocab = "full", !.vocabSrc = path,
                                  !.supplied = vocab_path,
                                  !.initCalls = CountInit(S.initCalls)]
             ELSE [S EXCEPT !.initCalls = CountInit(S.initCalls)]
        look == IF level = "function" THEN OK ELSE getMachineFunction(S.M, FunctionName)
        err == IF ~Ok THEN Err("Failed to initialize MIR2Vec vocabulary", "") ELSE look
        funcs == IF level = "function" THEN functionsOf(S.M, "lowered")
                 ELSE SelectSeq(functionsOf(S.M, "lowered"),
                                LAMBDA F : F.name = FunctionName)
    IN  /\ S.live /\ S.kind = "lowered"
        /\ mirVocabPath' = path
        /\ sess' = [sess EXCEPT ![s] = T]
        /\ last' = Call(op, s, "lowered", "", "", vocab_path, FunctionName, 1, err,
                        IF err = OK
                          THEN [kind |-> "embeddings", max_relation |-> 0,
                                list |-> getEmbeddings(level, funcs, path)]
                          ELSE NoResult)
        /\ UNCHANGED <<irVocabPath, ctor>>

\* generateEmbeddings without its throw
PyMIR2VecTool_generateEmbeddings_noThrow(s, op, level, FunctionName, vocab_path) ==
    PyMIR2VecTool_embedBody(s, op, level, FunctionName, vocab_path)

\* generateEmbeddings with its throw after initializeMIR2VecVocabularyForEmb
PyMIR2VecTool_generateEmbeddings_lateThrow(s, op, level, FunctionName, vocab_path) ==
    LET S == sess[s]
        path == setMIR2VecVocabPath(vocab_path)
        Ok == MIR2VecTool_initializeVocabulary(path)
    IN  /\ S.live /\ S.kind = "lowered"
        /\ mirVocabPath' = path
        /\ sess' = [sess EXCEPT ![s] =
                      IF Ok THEN [S EXCEPT !.vocab = "full", !.vocabSrc = path,
                                           !.initCalls = CountInit(S.initCalls)]
                      ELSE [S EXCEPT !.initCalls = CountInit(S.initCalls)]]
        /\ last' = Call(op, s, "lowered", "", "", vocab_path, FunctionName, 1,
                        Err("Function Not Implemented", ""), NoResult)
        /\ UNCHANGED <<irVocabPath, ctor>>

\* generateEmbeddings<KeyType>(FunctionName, vocab_path, getEmbeddingsFn), and
\* getFuncVectorMap(vocab_path): throw std::runtime_error first
PyMIR2VecTool_generateEmbeddings(s, op, level, FunctionName, vocab_path) ==
    /\ sess[s].live /\ sess[s].kind = "lowered"
    /\ last' = Call(op, s, "lowered", "", "", vocab_path, FunctionName, 0,
                    Err("Function Not Implemented", ""), NoResult)
    /\ UNCHANGED <<irVocabPath, mirVocabPath, sess, ctor>>

PyMIR2VecTool_getFuncVectorMap(s, vocab_path) ==
    PyMIR2VecTool_generateEmbeddings(s, "getFuncVectorMap", "function", "", vocab_path)

PyMIR2VecTool_generateMBBEmbeddings(s, FunctionName, vocab_path) ==
    PyMIR2VecTool_generateEmbeddings(s, "generateMBBEmbeddings", "block",
                                     FunctionName, vocab_path)

PyMIR2VecTool_generateMInstEmbeddings(s, FunctionName, vocab_path) ==
    PyMIR2VecTool_generateEmbeddings(s, "generateMInstEmbeddings", "instruction",
                                     FunctionName, vocab_path)

-----------------------------------------------------------------------------
(* The process: any caller, any call, one at a time *)

Next ==
    \/ \E s \in Sessions, f \in ModuleFiles, m \in Modes, v \in VocabPaths :
          PyIR2VecTool_ctor(s, f, m, v)
    \/ \E s \in Sessions : PyIR2VecTool_getFuncVectorMap(s)
    \/ \E s \in Sessions : PyIR2VecTool_generateBBEmbeddings(s)
    \/ \E s \in Sessions : PyIR2VecTool_generateInstEmbeddings(s)
    \/ \E s \in Sessions : PyIR2VecTool_generateTriplets(s)
    \/ py_ir2vec_getEntityMappings
    \/ \E s \in Sessions, f \in ModuleFiles, m \in Modes : PyMIR2VecTool_ctor(s, f, m)
    \/ \E s \in Sessions : PyMIR2VecTool_getEntityMappings(s)
    \/ \E s \in Sessions : PyMIR2VecTool_generateTriplets(s)
    \/ \E s \in Sessions, v \in EmbVocabArgs : PyMIR2VecTool_getFuncVectorMap(s, v)
    \/ \E s \in Sessions, n \in LookupNames, v \in EmbVocabArgs :
          PyMIR2VecTool_generateMBBEmbeddings(s, n, v)
    \/ \E s \in Sessions, n \in LookupNames, v \in EmbVocabArgs :
          PyMIR2VecTool_generateMInstEmbeddings(s, n, v)

Spec == Init /\ [][Next]_vars

-----------------------------------------------------------------------------
(* Constructors of PyIR2VecTool running in several threads, statement by   *)
(* statement: the checks and setIR2VecVocabPath, then initializeVocabulary. *)

\* lines up to and including setIR2VecVocabPath(VocabOverride)
PyIR2VecTool_ctor_enter(s, Filename, Mode, VocabOverride) ==
    LET e == PyIR2VecTool_checks(Filename, Mode, VocabOverride)
        path == PyIR2VecTool_setPath(irVocabPath, VocabOverride)
    IN  /\ FreeSlot(s)
        /\ IF e # OK
             THEN /\ last' = Call("PyIR2VecTool", s, "portable", Filename, Mode,
                                  VocabOverride, "", 0, e, NoResult)
                  /\ UNCHANGED <<irVocabPath, ctor>>
             ELSE /\ irVocabPath' = path
                  /\ ctor' = [t \in Sessions |->
                                IF t = s
                                  THEN [pc |-> "pathset", Filename |-> Filename,
                                        Mode |-> Mode, VocabOverride |-> VocabOverride,
                                        clobber |-> ""]
                                ELSE IF ctor[t].pc = "pathset"
                                  THEN [ctor[t] EXCEPT !.clobber = path]
                                ELSE ctor[t]]
                  /\ UNCHANGED last
        /\ UNCHANGED <<mirVocabPath, sess>>

\* bool Ok = Tool->initializeVocabulary(); and the throw if it failed
PyIR2VecTool_ctor_initialize(s) ==
    LET C == ctor[s]
        Ok == IR2VecTool_initializeVocabulary(irVocabPath)
    IN  /\ C.pc = "pathset"
        /\ sess' = IF Ok
                     THEN [sess EXCEPT ![s] =
                              IRSession(C.Mode, ParsedModule(C.Filename),
                                        C.VocabOverride, irVocabPath)]
                     ELSE sess
        /\ ctor' = [ctor EXCEPT ![s] = IF Ok THEN [C EXCEPT !.pc = "done"] ELSE IdleCtor]
        /\ last' = Call("PyIR2VecTool", s, "portable", C.Filename, C.Mode,
                        C.VocabOverride, "", 1,
                        IF Ok THEN OK ELSE Err("Failed to initialize IR2Vec vocabulary", ""),
                        NoResult)
        /\ UNCHANGED <<irVocabPath, mirVocabPath>>

NextRace ==
    \/ \E s \in Sessions, f \in ModuleFiles, m \in Modes, v \in VocabPaths :
          PyIR2VecTool_ctor_enter(s, f, m, v)
    \/ \E s \in Sessions : PyIR2VecTool_ctor_initialize(s)
    \/ \E s \in Sessions : PyIR2VecTool_getFuncVectorMap(s)

SpecRace == Init /\ [][NextRace]_vars

-----------------------------------------------------------------------------
(* Triplet extraction over every module of a bounded shape: one session,   *)
(* portable or lowered, already constructed over the module.               *)

Instrs == {Instr(op, n) : op \in Opcodes, n \in 0..MaxArgs}

\* the ways to cut 1..n into k consecutive pieces, every piece non-empty
\* (blocks) or possibly empty (functions: an empty one is a declaration)
Cuts(n, k, nonEmpty) ==
    {c \in [0..k -> 0..n] :
        /\ c[0] = 0 /\ c[k] = n
        /\ \A i \in 1..k : IF nonEmpty THEN c[i - 1] < c[i] ELSE c[i - 1] <= c[i]}

Pieces(seq, c, k) == [i \in 1..k |-> SubSeq(seq, c[i - 1] + 1, c[i])]

ModuleOf(flat, cb, b, cf, nf) ==
    LET blocks == Pieces(flat, cb, b)
        bodies == Pieces(blocks, cf, nf)
    IN  [i \in 1..nf |-> Func(FuncNames[i], bodies[i], TRUE)]

InitTriplets ==
    /\ irVocabPath \in {"v1.json"}
    /\ mirVocabPath = ""
    /\ ctor = [s \in Sessions |-> IdleCtor]
    /\ last = Call("none", 0, "none", "", "", "", "", 0, OK, NoResult)
    /\ \E n \in 0..MaxInsts, b \in 0..MaxBlocks, nf \in 1..MaxFuncs :
         \E flat \in [1..n -> Instrs], cb \in Cuts(n, b, TRUE), cf \in Cuts(b, nf, FALSE) :
           \E S \in {IRSession("sym", ModuleOf(flat, cb, b, cf, nf), "v1.json", "v1.json"),
                     MIRSession("sym", ModuleOf(flat, cb, b, cf, nf))} :
              sess = [s \in Sessions |-> IF s = 1 THEN S ELSE NoSession]

NextTriplets ==
    \/ PyIR2VecTool_generateTriplets(1)
    \/ PyMIR2VecTool_generateTriplets(1)

SpecTriplets == InitTriplets /\ [][NextTriplets]_vars

-----------------------------------------------------------------------------
(* Claims *)

Absent(M, name) == \A i \in DOMAIN M : M[i].name # name
NamedEmbOps == {"generateMBBEmbeddings", "generateMInstEmbeddings"}

C4_FlowAwareLoweredOnly ==
    /\ \A s \in Sessions : (sess[s].live /\ sess[s].kind = "lowered") => sess[s].Mode = "sym"
    /\ (last.op = "PyMIR2VecTool" /\ last.Mode = "fa")
          => /\ last.err # OK
             /\ ~fileNotValid(last.Filename) => ErrorKind(last.err) = "UnsupportedMode"
    /\ (last.op = "PyIR2VecTool" /\ last.Mode = "fa" /\ Parses(last.Filename)
          /\ last.vocab_path \in VocabFiles)
          => last.err = OK /\ sess[last.s].live /\ sess[last.s].Mode = "fa"
    /\ (last.op = "PyIR2VecTool" /\ last.Mode \notin {"sym", "fa"}
          /\ ~fileNotValid(last.Filename))
          => ErrorKind(last.err) = "UnsupportedMode"

\* 'fa' is refused for a lowered session while a portable 'fa' session lives
C4_Witness ==
    /\ last.op = "PyMIR2VecTool" /\ last.Mode = "fa" /\ last.Filename = "one.ll"
    /\ ErrorKind(last.err) = "UnsupportedMode"
    /\ \E s \in Sessions : sess[s].live /\ sess[s].kind = "portable" /\ sess[s].Mode = "fa"

\* C4 as written: creating a session in mode 'fa' fails on both
\* representation kinds, and no session is ever in mode 'fa'.
C4_Original ==
    /\ (last.op \in {"PyIR2VecTool", "PyMIR2VecTool"} /\ last.Mode = "fa") => last.err # OK
    /\ \A s \in Sessions : sess[s].live => sess[s].Mode # "fa"

\* C5, its count: after any sequence of calls a session has made at most one
\* vocabulary initialization call.
C5_Original ==
    \A s \in Sessions : sess[s].initCalls <= 1

\* C6: for a loadable module and a supported mode a session, and with it the
\* structural operations, is available whatever the vocabulary path: none,
\* empty or unreadable.
C6_Original ==
    ( /\ last.op \in {"PyIR2VecTool", "PyMIR2VecTool"}
      /\ Parses(last.Filename) /\ last.Mode = "sym" )
    => last.err = OK

C8_PathObserved ==
    \A s \in Sessions :
        (sess[s].live /\ ctor[s].pc = "done")
        => sess[s].vocabSrc = IF ctor[s].clobber = "" THEN sess[s].supplied
                              ELSE ctor[s].clobber

\* two constructors interleaved: a session holds the other session's vocabulary
C8_Witness ==
    \E s, t \in Sessions :
        /\ s # t /\ sess[s].live /\ sess[t].live
        /\ sess[s].supplied # sess[t].supplied
        /\ sess[s].vocabSrc = sess[t].supplied
        /\ sess[t].vocabSrc = sess[t].supplied

NextPlaces(funcs) ==
    {p \in (DOMAIN funcs) \X (1..MaxBlocks + 1) \X (1..MaxInsts + 1) :
        /\ p[2] \in DOMAIN funcs[p[1]].blocks
        /\ p[3] \in 1..(Len(funcs[p[1]].blocks[p[2]]) - 1)}

OpcodeIds == {idOf(op) : op \in Opcodes}

\* C10: the Next triples of a triplet result are exactly the pairs (opcode
\* of I, opcode of I') for I' immediately following I in the same block, as
\* often as such pairs occur: none joins two blocks and the last instruction
\* of a block is the head of none.
C10_NextWithinBlock ==
    (last.op = "generateTriplets")
    => LET funcs == functionsOf(sess[last.s].M, last.kind)
           L == last.result.list
           N == {k \in DOMAIN L : L[k][3] = NextRelation}
           P == NextPlaces(funcs)
       IN  /\ \A k \in N : L[k][1] \in OpcodeIds /\ L[k][2] \in OpcodeIds
           /\ \A h \in OpcodeIds, t \in OpcodeIds :
                 Cardinality({k \in N : L[k][1] = h /\ L[k][2] = t})
                 = Cardinality({p \in P :
                                  LET blk == funcs[p[1]].blocks[p[2]]
                                  IN  idOf(blk[p[3]].op) = h /\ idOf(blk[p[3] + 1].op) = t})

\* a function of two blocks, ret ending the first and add opening the second
C10_Witness ==
    /\ last.op = "generateTriplets"
    /\ \E f \in DOMAIN sess[last.s].M :
          LET B == sess[last.s].M[f].blocks
          IN  /\ Len(B) >= 2 /\ Len(B[1]) >= 2
              /\ B[1][Len(B[1])].op = "ret" /\ B[2][1].op = "add"
    /\ \E k \in DOMAIN last.result.list : last.result.list[k][3] = NextRelation

\* C11 as written: every InputError (unreadable module file, unparseable
\* module, unknown function name, function without the requested lowered
\* form) reaches the caller together with the offending identifier, the file
\* path or the function name, and "function not found" and "no lowered form"
\* are reported as distinct failures: a name-taking request whose function
\* lookup fails is answered with the failure of that lookup.
C11_Original ==
    /\ ErrorKind(last.err) = "InputError"
         => /\ last.err.id # ""
            /\ last.err.id \in {last.Filename, last.FunctionName}
    /\ ( /\ last.kind = "lowered" /\ last.op \in NamedEmbOps
          /\ getMachineFunction(sess[last.s].M, last.FunctionName) # OK )
         => last.err = getMachineFunction(sess[last.s].M, last.FunctionName)

\* the entities the instructions of a block, and of a module, resolve to
ResolvableOfBlock(B) ==
    UNION { {B[k].op} \cup (IF HasResultType(B[k]) THEN {ResultType(B[k])} ELSE {})
            : k \in DOMAIN B }

ResolvableOf(M) ==
    UNION { UNION { ResolvableOfBlock(M[f].blocks[b]) : b \in DOMAIN M[f].blocks }
            : f \in DOMAIN M }

====
